---------------------------- MODULE Spec2Model ----------------------------
(***************************************************************************)
(* Shaggy Tree River Watch (src/app.py): the SQLite store of snapshots,    *)
(* the two upstream fetchers and the Streamlit script that merges their    *)
(* results, stores a snapshot on a button press and charts the last 24 h.  *)
(*                                                                         *)
(* Representation.                                                         *)
(*   - A Python optional value is a sequence of length at most one:        *)
(*     None is << >>, a present value v is << v >>.                        *)
(*   - A text value (an ISO-8601 timestamp, a numeric string) is the       *)
(*     sequence of its ASCII codes, so that SQLite's byte-wise comparison  *)
(*     and Python's parsing are computed, not assumed.                     *)
(*   - A float is an integer number of tenths (gage height, temperatures,  *)
(*     m/s); wind in mph is an integer number of 1e-6 mph.                 *)
(*   - An instant is a whole number of hours since 2026-11-01T00:00Z; the  *)
(*     clock also carries the microsecond part datetime.isoformat prints.  *)
(***************************************************************************)
EXTENDS Integers, Sequences, FiniteSets, TLC

VARIABLES
    now,        \* wall clock read by datetime.now(timezone.utc)
    dbExists,   \* levels.sqlite holds the table readings
    table,      \* the rows of readings, in rowid order
    pc,         \* position of the script run / last store call made
    pressed,    \* st.button("Fetch & store latest now") of this run
    usgs,       \* HTTP response of the USGS request of this run
    weather,    \* HTTP response of the Open-Meteo request of this run
    ts_r, gh, wt,       \* result of fetch_usgs()
    ts_w, at, wind,     \* result of fetch_weather()
    ts,         \* merged timestamp
    err,        \* exception raised by the last call ("none" when it returned)
    df,         \* rows returned by the last load_last_24h()
    table0      \* history: the table as it was when the run started

vars == <<now, dbExists, table, pc, pressed, usgs, weather,
          ts_r, gh, wt, ts_w, at, wind, ts, err, df, table0>>

-----------------------------------------------------------------------------
(* Bounds of the model *)

MaxRows == 2
MaxTicks == 2
MaxSeries == 2
MaxPoints == 2
MaxSnapshots == 2

-----------------------------------------------------------------------------
(* Optional values and text *)

None == << >>
Some(v) == << v >>

Min2(a, b) == IF a <= b THEN a ELSE b

\* two decimal digits
D2(n) == << 48 + (n \div 10), 48 + (n % 10) >>

\* "2026-11-DDTHH" of a whole hour (local or UTC) of November 2026
DayHour(h) ==
    << 50, 48, 50, 54, 45, 49, 49, 45 >> \o D2((h \div 24) + 1) \o << 84 >> \o D2(h % 24)

\* "+HH:00" / "-HH:00"
OffsetText(off) ==
    (IF off < 0 THEN << 45 >> ELSE << 43 >>)
        \o D2(IF off < 0 THEN -off ELSE off) \o << 58, 48, 48 >>

\* USGS dateTime of instant h reported at UTC offset off:
\* "2026-11-DDTHH:00:00.000-07:00"
UsgsDateTime(h, off) ==
    DayHour(h + off) \o << 58, 48, 48, 58, 48, 48, 46, 48, 48, 48 >> \o OffsetText(off)

\* Open-Meteo current.time with timezone=UTC: "2026-11-DDTHH:00"
MeteoTime(h) == DayHour(h) \o << 58, 48, 48 >>

\* datetime.isoformat() of an aware UTC datetime: the microseconds are
\* printed (6 digits) only when they are not zero.
RECURSIVE Digits(_, _)
Digits(n, width) ==
    IF width = 0 THEN << >> ELSE Digits(n \div 10, width - 1) \o << 48 + (n % 10) >>

isoformat(t) ==
    DayHour(t.h) \o << 58, 48, 48, 58, 48, 48 >>
        \o (IF t.us = 0 THEN << >> ELSE << 46 >> \o Digits(t.us, 6))
        \o OffsetText(0)

\* a >= b in SQLite's BINARY collation (memcmp, then the longer is greater)
TextGeq(a, b) ==
    LET n == Min2(Len(a), Len(b))
        diff == {i \in 1..n : a[i] # b[i]}
    IN  IF diff = {} THEN Len(a) >= Len(b)
        ELSE LET k == CHOOSE i \in diff : \A j \in diff : i <= j
             IN  a[k] > b[k]

\* pd.to_datetime(text, utc=True): the instant the text denotes. A text
\* without offset ("2026-11-DDTHH:00") is taken as UTC.
Num2(s, i) == (s[i] - 48) * 10 + (s[i + 1] - 48)

to_datetime(s) ==
    LET local == (Num2(s, 9) - 1) * 24 + Num2(s, 12)
        n == Len(s)
    IN  IF n <= 19 THEN local
        ELSE IF s[n - 5] = 45 THEN local + Num2(s, n - 4)
        ELSE local - Num2(s, n - 4)

-----------------------------------------------------------------------------
(* CONFIG and HELPERS *)

PARAM_GAGE_HEIGHT == "00065"
PARAM_WATER_TEMP == "00010"

\* mps_to_mph(mps) = mps * 2.23694, None for None: tenths of m/s in,
\* millionths of mph out
mps_to_mph(mps) == IF mps # None THEN Some(mps[1] * 223694) ELSE None

\* float(text) of a decimal numeral with at most one fractional digit, in
\* tenths; FloatOk is false where float() raises ValueError
IsDigit(c) == c >= 48 /\ c <= 57

FloatOk(s) ==
    /\ \E i \in 1..Len(s) : IsDigit(s[i])
    /\ \A i \in 1..Len(s) : IsDigit(s[i]) \/ s[i] = 46
    /\ Cardinality({i \in 1..Len(s) : s[i] = 46}) <= 1

RECURSIVE IntOf(_)
IntOf(s) == IF s = << >> THEN 0 ELSE IntOf(SubSeq(s, 1, Len(s) - 1)) * 10 + (s[Len(s)] - 48)

float(s) ==
    LET dots == {i \in 1..Len(s) : s[i] = 46}
    IN  IF dots = {} THEN IntOf(s) * 10
        ELSE LET d == CHOOSE i \in dots : TRUE
             IN  IntOf(SubSeq(s, 1, d - 1)) * 10
                    + (IF d < Len(s) THEN s[d + 1] - 48 ELSE 0)

-----------------------------------------------------------------------------
(* DATA FETCH *)

\* The loop of fetch_usgs over js["value"]["timeSeries"], from series i on,
\* with the values acc assigned so far. A series without values raises
\* IndexError at [-1], a value that is no numeral raises ValueError.
RECURSIVE UsgsLoop(_, _, _)
UsgsLoop(series, i, acc) ==
    IF i > Len(series) THEN acc
    ELSE LET s == series[i] IN
         IF s.values = << >> THEN [acc EXCEPT !.err = "IndexError"]
         ELSE LET val == s.values[Len(s.values)]
                  matched == s.code \in {PARAM_GAGE_HEIGHT, PARAM_WATER_TEMP}
              IN  IF matched /\ ~FloatOk(val.value)
                  THEN [acc EXCEPT !.err = "ValueError"]
                  ELSE UsgsLoop(series, i + 1,
                         [err |-> "none",
                          ts  |-> Some(val.dateTime),
                          gh  |-> IF s.code = PARAM_GAGE_HEIGHT
                                  THEN Some(float(val.value)) ELSE acc.gh,
                          wt  |-> IF s.code = PARAM_WATER_TEMP
                                  THEN Some(float(val.value)) ELSE acc.wt])

\* fetch_usgs(): r.raise_for_status(), then the loop from gh = wt = ts = None
fetch_usgs(resp) ==
    IF resp.status # "ok"
    THEN [err |-> "HTTPError", ts |-> None, gh |-> None, wt |-> None]
    ELSE UsgsLoop(resp.timeSeries, 1,
                  [err |-> "none", ts |-> None, gh |-> None, wt |-> None])

\* cur[key] of a JSON object: KeyError when the key is missing, None for null
HasKeys(obj, keys) == keys \subseteq DOMAIN obj

fetch_weather_get(resp) ==
    IF resp.status # "ok"
    THEN [err |-> "HTTPError", ts |-> None, at |-> None, wind |-> None]
    ELSE LET cur == IF HasKeys(resp.json, {"current"})
                    THEN resp.json.current ELSE << >>
             Get(k) == IF HasKeys(cur, {k}) THEN cur[k] ELSE None
         IN  [err  |-> "none",
              ts   |-> Get("time"),
              at   |-> Get("temperature_2m"),
              wind |-> mps_to_mph(Get("wind_speed_10m"))]

\* fetch_weather(): r.raise_for_status(), cur = r.json()["current"], then
\* cur["time"], cur["temperature_2m"], mps_to_mph(cur["wind_speed_10m"])
fetch_weather(resp) ==
    IF resp.status # "ok"
    THEN [err |-> "HTTPError", ts |-> None, at |-> None, wind |-> None]
    ELSE IF ~HasKeys(resp.json, {"current"})
    THEN [err |-> "KeyError", ts |-> None, at |-> None, wind |-> None]
    ELSE IF ~HasKeys(resp.json.current, {"time", "temperature_2m", "wind_speed_10m"})
    THEN [err |-> "KeyError", ts |-> None, at |-> None, wind |-> None]
    ELSE [err  |-> "none",
          ts   |-> resp.json.current.time,
          at   |-> resp.json.current.temperature_2m,
          wind |-> mps_to_mph(resp.json.current.wind_speed_10m)]

-----------------------------------------------------------------------------
(* DATABASE *)

\* CREATE TABLE IF NOT EXISTS readings (...): the rows of the database file
\* after init_db(), and the error it raised.
init_db_reset(exists, rows) ==
    [exists |-> TRUE, rows |-> << >>, err |-> "none"]

init_db_create(exists, rows) ==
    [exists |-> TRUE,
     rows   |-> IF exists THEN rows ELSE << >>,
     err    |-> IF exists THEN "OperationalError" ELSE "none"]

init_db(exists, rows) ==
    [exists |-> TRUE,
     rows   |-> IF exists THEN rows ELSE << >>,
     err    |-> "none"]

\* id INTEGER PRIMARY KEY given NULL: one more than the largest rowid in the
\* table, 1 in an empty table.
MaxId(rows) ==
    IF rows = << >> THEN 0
    ELSE CHOOSE m \in {rows[i].id : i \in 1..Len(rows)} :
            \A i \in 1..Len(rows) : rows[i].id <= m

RowidOne(rows) == 1

NextRowid(rows) == MaxId(rows) + 1

\* the row with every missing measurement written as 0
OrZero(v) == IF v = None THEN Some(0) ELSE v

NewRowCoerced(rows, p_ts, p_gh, p_wt, p_at, p_wind) ==
    [id             |-> NextRowid(rows),
     ts_utc         |-> p_ts,
     gage_height_ft |-> OrZero(p_gh),
     water_temp_c   |-> OrZero(p_wt),
     air_temp_c     |-> OrZero(p_at),
     wind_mph       |-> OrZero(p_wind)]

\* INSERT INTO readings VALUES (NULL, ?, ?, ?, ?, ?) with the parameters
\* (ts, gh, wt, at, wind): sqlite3 binds None as NULL, a float as REAL and a
\* str as TEXT, each unchanged.
NewRow(rows, p_ts, p_gh, p_wt, p_at, p_wind) ==
    [id             |-> NextRowid(rows),
     ts_utc         |-> p_ts,
     gage_height_ft |-> p_gh,
     water_temp_c   |-> p_wt,
     air_temp_c     |-> p_at,
     wind_mph       |-> p_wind]

store_row(rows, p_ts, p_gh, p_wt, p_at, p_wind) ==
    Append(rows, NewRow(rows, p_ts, p_gh, p_wt, p_at, p_wind))

\* since = datetime.now(timezone.utc) - timedelta(hours=24)
Since(clock) == [h |-> clock.h - 24, us |-> clock.us]

\* WHERE ts_utc >= ?  with the parameter since.isoformat(): a NULL ts_utc
\* compares to NULL and the row is not selected; TEXT compares byte-wise.
Selected(rows, clock) ==
    {i \in 1..Len(rows) :
        /\ rows[i].ts_utc # None
        /\ TextGeq(rows[i].ts_utc[1], isoformat(Since(clock)))}

\* ORDER BY ts_utc: every order of the selected rows that ascends in the
\* text order (SQL leaves the order of equal keys open).
Ordered(rows, sel) ==
    {p \in [1..Cardinality(sel) -> sel] :
        /\ \A i, j \in 1..Cardinality(sel) : i # j => p[i] # p[j]
        /\ \A i, j \in 1..Cardinality(sel) :
              i < j => TextGeq(rows[p[j]].ts_utc[1], rows[p[i]].ts_utc[1])}

\* df["ts_utc"] = pd.to_datetime(df["ts_utc"], utc=True); a NULL REAL is
\* read back as a missing value.
Frame(rows, p) ==
    [i \in 1..Len(p) |->
        [rows[p[i]] EXCEPT !.ts_utc = Some(to_datetime(rows[p[i]].ts_utc[1]))]]

\* the data frames load_last_24h() can return
load_last_24h(rows, clock) ==
    {Frame(rows, p) : p \in Ordered(rows, Selected(rows, clock))}

-----------------------------------------------------------------------------
(* The store called directly: init_db, store_row and load_last_24h in any  *)
(* order after the first init_db, with the clock advancing in between.     *)

Clock0 == [h |-> 48, us |-> 0]

ClockEnd == 48 + 6 * MaxTicks

\* timestamps handed to store_row: absent, USGS local time (UTC-7), USGS
\* in UTC, Open-Meteo (UTC, no offset), and one older than any cutoff
StoreTimestamps ==
    {None, Some(UsgsDateTime(30, -7)), Some(UsgsDateTime(30, 0)),
     Some(MeteoTime(36)), Some(UsgsDateTime(12, -7))}

Untouched ==
    UNCHANGED <<pressed, usgs, weather, ts_r, gh, wt, ts_w, at, wind, ts, table0>>

Tick ==
    /\ dbExists
    /\ now.h + 6 <= ClockEnd
    /\ \E u \in {0, 500000} : now' = [h |-> now.h + 6, us |-> u]
    /\ pc' = "tick"
    /\ UNCHANGED <<dbExists, table, err, df>>
    /\ Untouched

CallInitDb ==
    /\ LET r == init_db(dbExists, table)
       IN  /\ dbExists' = r.exists
           /\ table' = r.rows
           /\ err' = r.err
    /\ pc' = "init_db"
    /\ UNCHANGED <<now, df>>
    /\ Untouched

CallStoreRow ==
    /\ dbExists
    /\ Len(table) < MaxRows
    /\ \E t \in StoreTimestamps, g \in {None, Some(51)} :
          table' = store_row(table, t, g, None, Some(300), mps_to_mph(Some(40)))
    /\ pc' = "store_row"
    /\ err' = "none"
    /\ UNCHANGED <<now, dbExists, df>>
    /\ Untouched

CallLoad ==
    /\ dbExists
    /\ df' \in load_last_24h(table, now)
    /\ pc' = "load_last_24h"
    /\ err' = "none"
    /\ UNCHANGED <<now, dbExists, table>>
    /\ Untouched

InitStore ==
    /\ now = Clock0
    /\ dbExists = FALSE
    /\ table = << >>
    /\ pc = "new"
    /\ pressed = FALSE
    /\ usgs = [status |-> "none"]
    /\ weather = [status |-> "none"]
    /\ ts_r = None /\ gh = None /\ wt = None
    /\ ts_w = None /\ at = None /\ wind = None
    /\ ts = None
    /\ err = "none"
    /\ df = << >>
    /\ table0 = << >>

NextStore == CallInitDb \/ CallStoreRow \/ CallLoad \/ Tick

SpecStore == InitStore /\ [][NextStore]_vars

\* the instant inst is at or after the moment t of the clock
AtOrAfter(inst, t) == inst > t.h \/ (inst = t.h /\ t.us = 0)

\* C1: after any sequence of store_row calls, load_last_24h returns exactly
\* the stored rows whose timestamp is at or after now - 24 h, each once, in
\* ascending order of time, and no row older than the cutoff.
C1_Last24hExact ==
    pc = "load_last_24h" =>
        /\ {df[i].id : i \in 1..Len(df)} =
              {table[i].id : i \in
                  {k \in 1..Len(table) :
                      /\ table[k].ts_utc # None
                      /\ AtOrAfter(to_datetime(table[k].ts_utc[1]), Since(now))}}
        /\ \A i, j \in 1..Len(df) : i < j =>
              /\ df[i].id # df[j].id
              /\ df[i].ts_utc[1] <= df[j].ts_utc[1]

\* C9: every store_row adds exactly one row, whose id differs from the id of
\* every row already stored, and keeps the rows that were there (also one
\* with the same timestamp); the ids of the table are pairwise distinct.
C9_FreshIds ==
    /\ [](\A i, j \in 1..Len(table) : i # j => table[i].id # table[j].id)
    /\ [][pc' = "store_row" =>
            /\ Len(table') = Len(table) + 1
            /\ SubSeq(table', 1, Len(table)) = table
            /\ \A i \in 1..Len(table) : table[i].id # table'[Len(table')].id]_vars

C9_Witness ==
    /\ pc = "store_row"
    /\ Len(table) = 2
    /\ table[1].ts_utc = table[2].ts_utc
    /\ table[1].id # table[2].id

\* C10: init_db creates the table only when it is absent: called again, in
\* any interleaving with store_row, it leaves every stored row as it was and
\* raises no error.
C10_InitDbIdempotent ==
    [][pc' = "init_db" =>
          /\ dbExists'
          /\ err' = "none"
          /\ table' = (IF dbExists THEN table ELSE << >>)]_vars

C10_Witness ==
    /\ pc = "init_db"
    /\ Len(table) >= 1
    /\ err = "none"

-----------------------------------------------------------------------------
(* One reading persisted into a new table and queried at once *)

RoundTripTimestamps ==
    {None, Some(UsgsDateTime(48, -7)), Some(MeteoTime(48)),
     Some(UsgsDateTime(30, -7)), Some(UsgsDateTime(12, -7))}

InitRoundTrip ==
    /\ now \in {[h |-> k, us |-> u] : k \in {48, 54}, u \in {0, 500000}}
    /\ dbExists = TRUE
    /\ table = << >>
    /\ pc = "init_db"
    /\ pressed = TRUE
    /\ usgs = [status |-> "none"]
    /\ weather = [status |-> "none"]
    /\ ts_r = None /\ ts_w = None
    /\ ts \in RoundTripTimestamps
    /\ gh \in {None, Some(51)}
    /\ wt \in {None, Some(185)}
    /\ at \in {None, Some(300)}
    /\ wind \in {None, mps_to_mph(Some(40))}
    /\ err = "none"
    /\ df = << >>
    /\ table0 = << >>

\* store_row(ts, gh, wt, at, wind)
Persist ==
    /\ pc = "init_db"
    /\ table' = store_row(table, ts, gh, wt, at, wind)
    /\ pc' = "store_row"
    /\ UNCHANGED <<now, dbExists, err, df>>
    /\ Untouched

QueryAfterPersist ==
    /\ pc = "store_row"
    /\ CallLoad

NextRoundTrip == Persist \/ QueryAfterPersist

SpecRoundTrip == InitRoundTrip /\ [][NextRoundTrip]_vars

\* the query's own criterion: the timestamp is present and its text is not
\* below the text of the cutoff
TextInWindow(t, clock) == t # None /\ TextGeq(t[1], isoformat(Since(clock)))

-----------------------------------------------------------------------------
(* The script: one run per page load or button press *)

\* USGS responses of the runs: HTTP failure, no series, gage height alone,
\* gage height then water temperature, a series of another parameter alone,
\* and a gage height that is no numeral
Point(h, text) == [dateTime |-> UsgsDateTime(h, -7), value |-> text]

GageResponses ==
    {[status |-> "http_error"],
     [status |-> "ok", timeSeries |-> << >>],
     [status |-> "ok", timeSeries |->
        << [code |-> "00065", values |-> << Point(46, << 53, 46, 49 >>) >>] >>],
     [status |-> "ok", timeSeries |->
        << [code |-> "00065", values |-> << Point(46, << 53, 46, 49 >>) >>],
           [code |-> "00010", values |-> << Point(47, << 49, 56, 46, 53 >>) >>] >>],
     [status |-> "ok", timeSeries |->
        << [code |-> "00060", values |-> << Point(47, << 57, 46, 48 >>) >>] >>],
     [status |-> "ok", timeSeries |->
        << [code |-> "00065", values |-> << Point(46, << 73, 99, 101 >>) >>] >>]}

\* Open-Meteo responses of the runs: HTTP failure, a body without "current",
\* a "current" with all three keys or with one of them missing, and a
\* "current" whose three values are null
Current(keys, isNull) ==
    [k \in keys |->
        IF isNull THEN None
        ELSE IF k = "time" THEN Some(MeteoTime(48))
        ELSE IF k = "temperature_2m" THEN Some(300)
        ELSE Some(40)]

WeatherKeys == {"time", "temperature_2m", "wind_speed_10m"}

WeatherResponses ==
    {[status |-> "http_error"], [status |-> "ok", json |-> << >>]}
    \cup {[status |-> "ok", json |-> [current |-> Current(WeatherKeys \ {k}, FALSE)]] :
            k \in WeatherKeys}
    \cup {[status |-> "ok", json |-> [current |-> Current(WeatherKeys, n)]] :
            n \in BOOLEAN}

\* a or b of Python: a unless it is None or the empty string
Truthy(v) == v # None /\ v[1] # << >>

MergeWeatherFirst(a, b) == IF Truthy(b) THEN b ELSE a

Merge(a, b) == IF Truthy(a) THEN a ELSE b

\* except Exception: st.error(...); st.stop()
ContinueAnyway(e, next) == next

AfterFetch(e, next) == IF e = "none" THEN next ELSE "stopped"

Init ==
    /\ now = Clock0
    /\ dbExists = FALSE
    /\ table = << >>
    /\ pc = "idle"
    /\ pressed = FALSE
    /\ usgs = [status |-> "none"]
    /\ weather = [status |-> "none"]
    /\ ts_r = None /\ gh = None /\ wt = None
    /\ ts_w = None /\ at = None /\ wind = None
    /\ ts = None
    /\ err = "none"
    /\ df = << >>
    /\ table0 = << >>

\* APP START: a rerun of the script, some time after the last one; the run
\* that a press of the button starts sees st.button() return True.
Rerun ==
    /\ pc \in {"idle", "stopped", "done"}
    /\ \E d \in {0, 6}, u \in {0, 500000} :
          /\ now.h + d <= ClockEnd
          /\ now' = [h |-> now.h + d, us |-> u]
    /\ pressed' \in (IF Len(table) < MaxSnapshots THEN BOOLEAN ELSE {FALSE})
    /\ LET r == init_db(dbExists, table)
       IN  /\ dbExists' = r.exists
           /\ table' = r.rows
           /\ table0' = r.rows
           /\ err' = r.err
    /\ usgs' = [status |-> "none"]
    /\ weather' = [status |-> "none"]
    /\ ts_r' = None /\ gh' = None /\ wt' = None
    /\ ts_w' = None /\ at' = None /\ wind' = None
    /\ ts' = None
    /\ df' = << >>
    /\ pc' = "fetch_usgs"

\* ts_r, gh, wt = fetch_usgs()
FetchUsgs(responses) ==
    /\ pc = "fetch_usgs"
    /\ \E resp \in responses :
          LET r == fetch_usgs(resp)
          IN  /\ usgs' = resp
              /\ err' = r.err
              /\ ts_r' = (IF r.err = "none" THEN r.ts ELSE None)
              /\ gh' = (IF r.err = "none" THEN r.gh ELSE None)
              /\ wt' = (IF r.err = "none" THEN r.wt ELSE None)
              /\ pc' = AfterFetch(r.err, "fetch_weather")
    /\ UNCHANGED <<now, dbExists, table, pressed, weather, ts_w, at, wind, ts, df, table0>>

\* ts_w, at, wind = fetch_weather(); ts = ts_r or ts_w
FetchWeather ==
    /\ pc = "fetch_weather"
    /\ \E resp \in WeatherResponses :
          LET r == fetch_weather(resp)
          IN  /\ weather' = resp
              /\ err' = r.err
              /\ ts_w' = r.ts
              /\ at' = r.at
              /\ wind' = r.wind
              /\ ts' = (IF r.err = "none" THEN Merge(ts_r, r.ts) ELSE None)
              /\ pc' = AfterFetch(r.err, "button")
    /\ UNCHANGED <<now, dbExists, table, pressed, usgs, ts_r, gh, wt, df, table0>>

\* if st.button("Fetch & store latest now"): store_row(ts, gh, wt, at, wind)
Button ==
    /\ pc = "button"
    /\ table' = (IF pressed THEN store_row(table, ts, gh, wt, at, wind) ELSE table)
    /\ pc' = "load"
    /\ UNCHANGED <<now, dbExists, pressed, usgs, weather,
                   ts_r, gh, wt, ts_w, at, wind, ts, err, df, table0>>

\* df = load_last_24h()
Load ==
    /\ pc = "load"
    /\ df' \in load_last_24h(table, now)
    /\ pc' = "done"
    /\ UNCHANGED <<now, dbExists, table, pressed, usgs, weather,
                   ts_r, gh, wt, ts_w, at, wind, ts, err, table0>>

Next == Rerun \/ FetchUsgs(GageResponses) \/ FetchWeather \/ Button \/ Load

Spec == Init /\ [][Next]_vars

\* the run of Spec reached the button: both fetches returned
Fetched == pc \in {"button", "load", "done"}

\* C3: in a run where the USGS or the Open-Meteo request fails (transport or
\* HTTP failure) the script stops with the error and the table stays as it
\* was when the run started, with the button pressed or not.
C3_FetchFailureWritesNothing ==
    (usgs.status = "http_error" \/ weather.status = "http_error") =>
        /\ pc = "stopped"
        /\ err = "HTTPError"
        /\ table = table0

C3_Witness ==
    /\ weather.status = "http_error"
    /\ usgs.status = "ok"
    /\ pressed
    /\ pc = "stopped"

\* C6: when both fetches return, the merged timestamp is the gage timestamp
\* if there is one and the weather timestamp otherwise, the four
\* measurements are the values the two fetches returned, and the row a
\* pressed button writes holds exactly these five values.
C6_Merge ==
    Fetched =>
        /\ ts = (IF fetch_usgs(usgs).ts # None
                 THEN fetch_usgs(usgs).ts ELSE fetch_weather(weather).ts)
        /\ gh = fetch_usgs(usgs).gh
        /\ wt = fetch_usgs(usgs).wt
        /\ at = fetch_weather(weather).at
        /\ wind = fetch_weather(weather).wind
        /\ (pc \in {"load", "done"} /\ pressed) =>
              /\ Len(table) = Len(table0) + 1
              /\ table[Len(table)].ts_utc = ts
              /\ table[Len(table)].gage_height_ft = gh
              /\ table[Len(table)].water_temp_c = wt
              /\ table[Len(table)].air_temp_c = at
              /\ table[Len(table)].wind_mph = wind

\* the gage reported no timestamp and the weather one is stored
C6_Witness ==
    /\ pc = "done"
    /\ pressed
    /\ ts_r = None
    /\ ts_w # None
    /\ table[Len(table)].ts_utc = ts_w

\* C7: the table is append-only: a step either leaves it as it is or is the
\* button step of a run whose button was pressed, which adds one row after
\* the rows already there; no row is ever changed or removed.
C7_AppendOnly ==
    [][\/ table' = table
       \/ /\ pc = "button"
          /\ pressed
          /\ Len(table') = Len(table) + 1
          /\ SubSeq(table', 1, Len(table)) = table]_vars

C7_Witness ==
    /\ pc = "fetch_usgs"
    /\ Len(table) >= 1

\* the Open-Meteo body of this run lacks "current" or one of its three keys
LacksField(resp) ==
    /\ resp.status = "ok"
    /\ \/ ~HasKeys(resp.json, {"current"})
       \/ ~HasKeys(resp.json.current, WeatherKeys)

\* C8: a weather body without "current", or without one of time,
\* temperature_2m and wind_speed_10m, makes the run stop with an error; no
\* merged reading comes out of it and no row is stored.
C8_MissingFieldIsFatal ==
    LacksField(weather) =>
        /\ pc = "stopped"
        /\ err = "KeyError"
        /\ ts = None
        /\ table = table0

C8_Witness ==
    /\ LacksField(weather)
    /\ HasKeys(weather.json, {"current"})
    /\ pressed
    /\ pc = "stopped"

-----------------------------------------------------------------------------
(* fetch_usgs on every response of a few series *)

Samples ==
    {[dateTime |-> UsgsDateTime(46, -7), value |-> << 53, 46, 49 >>],
     [dateTime |-> UsgsDateTime(47, -7), value |-> << 49, 56, 46, 53 >>],
     [dateTime |-> UsgsDateTime(48, -7), value |-> << 73, 99, 101 >>]}

SeqsUpTo(S, n) == UNION {[1..k -> S] : k \in 0..n}

AllSeries ==
    {[code |-> c, values |-> v] :
        c \in {PARAM_GAGE_HEIGHT, PARAM_WATER_TEMP, "00060"},
        v \in SeqsUpTo(Samples, MaxPoints)}

AllGageResponses ==
    {[status |-> "http_error"]}
    \cup {[status |-> "ok", timeSeries |-> q] : q \in SeqsUpTo(AllSeries, MaxSeries)}

InitUsgs ==
    /\ now = Clock0
    /\ dbExists = TRUE
    /\ table = << >>
    /\ pc = "fetch_usgs"
    /\ pressed = FALSE
    /\ usgs = [status |-> "none"]
    /\ weather = [status |-> "none"]
    /\ ts_r = None /\ gh = None /\ wt = None
    /\ ts_w = None /\ at = None /\ wind = None
    /\ ts = None
    /\ err = "none"
    /\ df = << >>
    /\ table0 = << >>

NextUsgs == FetchUsgs(AllGageResponses)

SpecUsgs == InitUsgs /\ [][NextUsgs]_vars

\* the series of the response whose code is gage height or water temperature
MatchedSeries(resp) ==
    {i \in 1..Len(resp.timeSeries) :
        resp.timeSeries[i].code \in {PARAM_GAGE_HEIGHT, PARAM_WATER_TEMP}}

\* C4: a response that parses and has no series with the gage-height or the
\* water-temperature code, whatever other series it has, makes fetch_usgs
\* return (None, None, None) without error.
C4_NoMatchAllAbsent ==
    (/\ usgs.status = "ok"
     /\ MatchedSeries(usgs) = {}
     /\ \A i \in 1..Len(usgs.timeSeries) : usgs.timeSeries[i].values # << >>) =>
        /\ err = "none"
        /\ ts_r = None
        /\ gh = None
        /\ wt = None

\* C5: the timestamp fetch_usgs returns is that of the most recent value of
\* the last series whose code is gage height or water temperature (None when
\* there is none); series of another code never change it.
C5_TimestampOfLastMatched ==
    (usgs.status = "ok" /\ err = "none") =>
        ts_r = (IF MatchedSeries(usgs) = {} THEN None
                ELSE LET m == CHOOSE i \in MatchedSeries(usgs) :
                                 \A j \in MatchedSeries(usgs) : j <= i
                         v == usgs.timeSeries[m].values
                     IN  Some(v[Len(v)].dateTime))

=============================================================================
